---------------------------- MODULE Spec2Model ----------------------------
(***************************************************************************)
(* A model of pub/publications-manage.py: the record normalizer            *)
(* (formatter), the classifier (order_db), the citation renderer           *)
(* (author2html, *2html, bibtex2html), the loader (read_many_bibs) and the *)
(* pipeline driver (main).                                                 *)
(*                                                                         *)
(* A Python str is a sequence of characters; a character is a one-letter   *)
(* TLA+ string (the en dash and the backtick, which the lexer does not     *)
(* take, are atoms).  A bibtexparser entry (a dict) is a function from     *)
(* field names to strs; "key in entry.keys()" is key \in DOMAIN entry.     *)
(***************************************************************************)
EXTENDS Integers, Sequences, FiniteSets, TLC

VARIABLES
    pc,          \* position of the operation under way
    paths_in,    \* main / read_many_bibs: the number of input paths
    parsed,      \* bibtexparser.loads(...).entries, the parser's result
    db,          \* the entries of the database (db.entries)
    order,       \* order_db's argument `order`
    db_ordered,  \* main: order_db(db)
    cursor,      \* how far the loop under way has come
    tsv,         \* the tabular file
    bib,         \* the re-serialized bib file
    html,        \* the hypertext file
    entry,       \* the record formatter / bibtex2html is applied to
    author,      \* author2html's argument
    pdf_dir,     \* the directory of the auxiliary files
    isfile,      \* the paths for which os.path.isfile is true
    ret          \* what the operation returned or raised

mainVars == <<paths_in, parsed, db, db_ordered, tsv, bib, html>>

vars == <<pc, mainVars, order, cursor, entry, author, pdf_dir, isfile, ret>>

(***************************************************************************)
(* Characters.                                                             *)
(***************************************************************************)
EnDash == "U+2013"
Backtick == "U+0060"

UpperCase == <<"A", "B", "C", "D", "E", "F", "G", "H", "I", "J", "K", "L", "M",
               "N", "O", "P", "Q", "R", "S", "T", "U", "V", "W", "X", "Y", "Z">>

LowerCase == <<"a", "b", "c", "d", "e", "f", "g", "h", "i", "j", "k", "l", "m",
               "n", "o", "p", "q", "r", "s", "t", "u", "v", "w", "x", "y", "z">>

\* The characters of the model in code point order (str comparison in
\* sorted() is by code point).
CodePoints == <<"\t", "\n", "\f", "\r", " ", "\"", "%", "&", "'", "(", ")", ",", "-", ".",
                "/", "0", "1", "2", "3", "4", "5", "6", "7", "8", "9", ":",
                ";", "<", "=", ">">> \o UpperCase
              \o <<"[", "\\", "]", "_", Backtick>> \o LowerCase
              \o <<"{", "}", EnDash>>

Range(f) == {f[i] : i \in DOMAIN f}

Ord(c) == CHOOSE i \in DOMAIN CodePoints : CodePoints[i] = c

\* str.isupper() of one character
isupper(c) == c \in Range(UpperCase)

\* str.lower() of one character
LowerChar(c) ==
    IF isupper(c)
    THEN LowerCase[CHOOSE i \in DOMAIN UpperCase : UpperCase[i] = c]
    ELSE c

\* str.lower()
lower(s) == [i \in DOMAIN s |-> LowerChar(s[i])]

\* what the regular expression class \s matches
Whitespace == {" ", "\t", "\n", "\r", "\f"}

(***************************************************************************)
(* str operations.                                                         *)
(***************************************************************************)
\* s[i:] starts with pat (i is 1-based)
StartsAt(s, i, pat) ==
    /\ i + Len(pat) - 1 <= Len(s)
    /\ \A j \in 1..Len(pat) : s[i + j - 1] = pat[j]

\* pat in s
Contains(s, pat) == \E i \in 1..(Len(s) + 1) : StartsAt(s, i, pat)

Min(S) == CHOOSE x \in S : \A y \in S : x <= y

\* s[i-1:] (i is 1-based)
From(s, i) == SubSeq(s, i, Len(s))

\* the least of the indices of s in `hits`, Len(s) + 1 when there is none
First(s, hits) == Min(hits \cup {Len(s) + 1})

RECURSIVE ReplaceFrom(_, _, _, _)
\* the scan goes from one occurrence of old to the next one after it
ReplaceFrom(s, i, old, new) ==
    LET j == First(s, {k \in i..Len(s) : StartsAt(s, k, old)})
    IN  IF j > Len(s) THEN From(s, i)
        ELSE SubSeq(s, i, j - 1) \o new
             \o ReplaceFrom(s, j + Len(old), old, new)

\* s.replace(old, new), old not empty: leftmost occurrences, not overlapping
Replace(s, old, new) == ReplaceFrom(s, 1, old, new)

RECURSIVE SplitFrom(_, _, _)
SplitFrom(s, i, sep) ==
    LET j == First(s, {k \in i..Len(s) : StartsAt(s, k, sep)})
    IN  IF j > Len(s) THEN <<From(s, i)>>
        ELSE <<SubSeq(s, i, j - 1)>> \o SplitFrom(s, j + Len(sep), sep)

\* s.split(sep), sep not empty: empty parts are kept
Split(s, sep) == SplitFrom(s, 1, sep)

RECURSIVE Join(_, _)
\* sep.join(parts)
Join(sep, parts) ==
    IF Len(parts) = 0 THEN <<>>
    ELSE IF Len(parts) = 1 THEN parts[1]
         ELSE parts[1] \o sep \o Join(sep, Tail(parts))

\* the first index >= i of s that holds no character of cls
SkipClass(s, i, cls) == First(s, {k \in i..Len(s) : s[k] \notin cls})

RECURSIVE SubNewlinesFrom(_, _)
SubNewlinesFrom(s, i) ==
    LET j == First(s, {k \in i..Len(s) : s[k] = "\n"})
    IN  IF j > Len(s) THEN From(s, i)
        ELSE SubSeq(s, i, j - 1) \o <<" ">>
             \o SubNewlinesFrom(s, SkipClass(s, j, {"\n"}))

\* re.sub("\n+", " ", s)
SubNewlines(s) == SubNewlinesFrom(s, 1)

\* re.sub("{|}", "", s)
SubBraces(s) == SelectSeq(s, LAMBDA c : c \notin {"{", "}"})

Dashes == {"-", EnDash}

\* \s*[-<en dash>]+\s* matches at i when the whitespace from i on is
\* followed by a dash
DashRunAt(s, i) ==
    LET d == SkipClass(s, i, Whitespace) IN d <= Len(s) /\ s[d] \in Dashes

\* where the match at i ends: it takes the whitespace, the dashes and the
\* whitespace after them (all three parts are greedy and cannot give back)
DashRunEnd(s, i) ==
    SkipClass(s, SkipClass(s, SkipClass(s, i, Whitespace), Dashes), Whitespace)

RECURSIVE SubDashRunsFrom(_, _)
SubDashRunsFrom(s, i) ==
    LET j == First(s, {k \in i..Len(s) : DashRunAt(s, k)})
    IN  IF j > Len(s) THEN From(s, i)
        ELSE SubSeq(s, i, j - 1) \o <<"-">>
             \o SubDashRunsFrom(s, DashRunEnd(s, j))

\* re.sub(r"\s*[-<en dash>]+\s*", "-", s)
SubDashRuns(s) == SubDashRunsFrom(s, 1)

\* re.sub("-", "<en dash>", s)
SubHyphens(s) == [i \in DOMAIN s |-> IF s[i] = "-" THEN EnDash ELSE s[i]]

(***************************************************************************)
(* formatter: the record normalizer.                                       *)
(***************************************************************************)
\* "{" + r + "}" if any(x.isupper() for x in r) else r
ProtectToken(r) ==
    IF \E i \in DOMAIN r : isupper(r[i]) THEN <<"{">> \o r \o <<"}">> ELSE r

\* the title / booktitle rule
ProtectCapitals(value) ==
    LET row == Split(SubBraces(value), <<" ">>)
    IN  Join(<<" ">>, [i \in DOMAIN row |-> ProtectToken(row[i])])

\* the pages rule
NormalizePages(value) == SubHyphens(SubDashRuns(value))

\* one iteration of formatter's loop: the three rules on the field `key`
FormatField(key, value) ==
    LET v1 == SubNewlines(value)
        v2 == IF key = "title" \/ key = "booktitle"
              THEN ProtectCapitals(v1) ELSE v1
    IN  IF key = "pages" THEN NormalizePages(v2) ELSE v2

\* every value of an entry is a str (type(entry[key]) is str holds), and
\* the rules of one key read and write that key alone
formatter(e) == [key \in DOMAIN e |-> FormatField(key, e[key])]

\* Python's None: the value of what has not been set
None == <<"N", "o", "n", "e">>

\* a file that has not been opened: nothing of it is on disk
Unopened == [opened |-> FALSE, closed |-> FALSE, content |-> <<>>]

\* the state before main has run
MainIdle ==
    /\ paths_in = 0 /\ parsed = <<>> /\ db = <<>> /\ db_ordered = <<>>
    /\ tsv = Unopened /\ bib = Unopened /\ html = Unopened

(***************************************************************************)
(* The records formatter is applied to.                                    *)
(***************************************************************************)
\* the longest pages value, and the longest title, booktitle or note
MaxPagesLen == 4
MaxTitleLen == 3

StrsUpTo(alphabet, n) == UNION {[1..k -> alphabet] : k \in 0..n}

PagesInputs == StrsUpTo({"1", "-", EnDash, " "}, MaxPagesLen)
TitleInputs == StrsUpTo({"a", "B", "{", "}", " ", "\n"}, MaxTitleLen)

FormatterInputs ==
    {[ENTRYTYPE |-> <<"m", "i", "s", "c">>, ID |-> <<"k">>, pages |-> p] :
        p \in PagesInputs}
    \cup {[ENTRYTYPE |-> <<"m", "i", "s", "c">>, ID |-> <<"k">>, title |-> t] :
        t \in TitleInputs}
    \cup {[ENTRYTYPE |-> <<"m", "i", "s", "c">>, ID |-> <<"k">>,
           booktitle |-> t, note |-> t] : t \in TitleInputs}

(***************************************************************************)
(* SpecFormatter: formatter applied to a record, and again to its result.  *)
(***************************************************************************)
InitFormatter ==
    /\ pc = "formatter"
    /\ entry \in FormatterInputs
    /\ ret = None
    /\ cursor = 0
    /\ MainIdle
    /\ order = None /\ author = None /\ pdf_dir = None /\ isfile = {}

\* entry = formatter(entry); ret keeps the record as it was before the call
Formatter ==
    /\ pc = "formatter"
    /\ cursor < 2
    /\ entry' = formatter(entry)
    /\ ret' = entry
    /\ cursor' = cursor + 1
    /\ UNCHANGED <<pc, mainVars, order, author, pdf_dir, isfile>>

SpecFormatter == InitFormatter /\ [][Formatter]_vars

\* C6: the normalizer is idempotent: a second application of formatter
\* leaves every field of an already normalized record as it is, and the
\* field set is the same before and after.
FormatterIdempotent ==
    (pc = "formatter" /\ cursor = 2) =>
        /\ DOMAIN entry = DOMAIN ret
        /\ \A key \in DOMAIN entry : entry[key] = ret[key]

(***************************************************************************)
(* author2html.                                                            *)
(***************************************************************************)
\* the default of author2html's parameter `special`
special == << <<"H", "e", "i", "n", "r", "i", "c", "h", ",", " ", "P", "h", "i", "l", "i", "p", "p">>,
              <<"H", "e", "i", "n", "r", "i", "c", "h", ",", " ", "P", ".">> >>

RECURSIVE UnderlineSpecial(_, _, _)
\* for s in special: author = author.replace(s, "<u>" + s + "</u>")
UnderlineSpecial(a, sp, i) ==
    IF i > Len(sp) THEN a
    ELSE UnderlineSpecial(
             Replace(a, sp[i], <<"<", "u", ">">> \o sp[i] \o <<"<", "/", "u", ">">>), sp, i + 1)

author2html(a) ==
    UnderlineSpecial(Replace(a, <<" ", "a", "n", "d", " ">>, <<";", " ">>), special, 1)

(***************************************************************************)
(* SpecAuthor: author2html applied to a list of names joined by " and ".   *)
(***************************************************************************)
\* the most names of an author field
MaxAuthors == 3

AuthorNames == { <<"S", "m", "i", "t", "h", ",", " ", "J", ".">>,
                 <<"H", "e", "i", "n", "r", "i", "c", "h", ",", " ", "P", "h", "i", "l", "i", "p", "p">>,
                 <<"H", "e", "i", "n", "r", "i", "c", "h", ",", " ", "P", ".">>,
                 <<"H", "e", "i", "n", "r", "i", "c", "h", ",", " ", "P", "h", "i", "l", "i", "p", "p", "a">>,
                 <<"h", "e", "i", "n", "r", "i", "c", "h", ",", " ", "p", "h", "i", "l", "i", "p", "p">> }

AuthorInputs ==
    {Join(<<" ", "a", "n", "d", " ">>, names) :
        names \in UNION {[1..n -> AuthorNames] : n \in 1..MaxAuthors}}

InitAuthor ==
    /\ pc = "author2html"
    /\ author \in AuthorInputs
    /\ ret = None
    /\ cursor = 0
    /\ MainIdle
    /\ order = None /\ entry = None /\ pdf_dir = None /\ isfile = {}

Author2Html ==
    /\ pc = "author2html"
    /\ ret' = author2html(author)
    /\ pc' = "returned"
    /\ UNCHANGED <<mainVars, order, cursor, entry, author, pdf_dir, isfile>>

SpecAuthor == InitAuthor /\ [][Author2Html]_vars

\* the author names of an author field: its parts between " and "
NamesOf(a) == Split(a, <<" ", "a", "n", "d", " ">>)

\* a name with the underline markup put around the whole of it
Underlined(name) == <<"<", "u", ">">> \o name \o <<"<", "/", "u", ">">>

\* C7: author2html joins the names by "; " and underlines exactly the names
\* that are equal to a special name; every other name is emitted unchanged.
AuthorsUnderlinedWhenEqual ==
    pc = "returned" =>
        LET names == NamesOf(author)
        IN  ret = Join(<<";", " ">>,
                    [i \in DOMAIN names |->
                        IF names[i] \in Range(special)
                        THEN Underlined(names[i]) ELSE names[i]])

(***************************************************************************)
(* Results of a call: a returned value or a raised exception.              *)
(***************************************************************************)
\* no exception
NoException == [exc |-> "none", msg |-> <<>>]

Return(v) ==
    [exc |-> "none", msg |-> <<>>, context |-> NoException, value |-> v]

\* an exception of class exc with message msg, raised while `context` was
\* being handled (its __context__)
Raise(exc, msg, context) ==
    [exc |-> exc, msg |-> msg, value |-> None,
     context |-> [exc |-> context.exc, msg |-> context.msg]]

\* the field names a style reads, as strs
KeyStr == [author |-> <<"a", "u", "t", "h", "o", "r">>,
           editor |-> <<"e", "d", "i", "t", "o", "r">>,
           year |-> <<"y", "e", "a", "r">>,
           title |-> <<"t", "i", "t", "l", "e">>,
           journal |-> <<"j", "o", "u", "r", "n", "a", "l">>,
           volume |-> <<"v", "o", "l", "u", "m", "e">>,
           pages |-> <<"p", "a", "g", "e", "s">>,
           booktitle |-> <<"b", "o", "o", "k", "t", "i", "t", "l", "e">>,
           address |-> <<"a", "d", "d", "r", "e", "s", "s">>,
           publisher |-> <<"p", "u", "b", "l", "i", "s", "h", "e", "r">>,
           howpublished |-> <<"h", "o", "w", "p", "u", "b", "l", "i", "s", "h", "e", "d">>]

\* entry[key] of a key the entry lacks: KeyError(key), whose str is repr(key)
KeyError(key) == Raise("KeyError", <<"'">> \o KeyStr[key] \o <<"'">>, NoException)

\* the first of the keys, in the order the style evaluates entry[key], that
\* the entry lacks; "none" when it has them all
FirstMissing(e, keys) ==
    IF \A i \in DOMAIN keys : keys[i] \in DOMAIN e THEN "none"
    ELSE keys[CHOOSE i \in DOMAIN keys :
                 /\ keys[i] \notin DOMAIN e
                 /\ \A j \in 1..(i - 1) : keys[j] \in DOMAIN e]

\* a style function: the KeyError of the first missing key, or the text
Styled(e, keys, text) ==
    IF FirstMissing(e, keys) # "none"
    THEN KeyError(FirstMissing(e, keys))
    ELSE Return(text)

(***************************************************************************)
(* The five style functions.                                               *)
(***************************************************************************)
article2html(e) ==
    LET volume_number ==
            <<"<", "b", ">">> \o e.volume \o <<"<", "/", "b", ">">>
            \o (IF "number" \in DOMAIN e
                THEN <<"(">> \o e.number \o <<")">> ELSE <<>>)
    IN  Styled(e, <<"volume", "author", "year", "title", "journal", "pages">>,
            Join(<<" ">>, <<
                author2html(e.author),
                <<"(">> \o e.year \o <<")", ".">>,
                <<"<", "b", ">">> \o e.title \o <<"<", "/", "b", ">", ".">>,
                <<"<", "i", ">">> \o e.journal \o <<"<", "/", "i", ">">>,
                volume_number \o <<":">>,
                e.pages \o <<".">> >>))

book2html(e) ==
    IF "author" \notin DOMAIN e /\ "editor" \notin DOMAIN e
    THEN \* the local `author` is read without having been assigned
         Raise("UnboundLocalError",
               <<"l", "o", "c", "a", "l", " ", "v", "a", "r", "i", "a", "b", "l", "e", " ", "'", "a", "u", "t", "h", "o", "r", "'", " ", "r", "e", "f", "e", "r", "e", "n", "c", "e", "d", " ", "b", "e", "f", "o", "r", "e", " ", "a", "s", "s", "i", "g", "n", "m", "e", "n", "t">>,
               NoException)
    ELSE LET a == IF "author" \in DOMAIN e
                  THEN author2html(e.author) ELSE author2html(e.editor)
         IN  Styled(e, <<"year", "title", "address", "publisher">>,
                 Join(<<" ">>, <<
                     a,
                     <<"(">> \o e.year \o <<")", ".">>,
                     <<"<", "b", ">">> \o e.title \o <<"<", "/", "b", ">", ".">>,
                     e.address \o <<":">>,
                     e.publisher \o <<".">> >>))

inproceedings2html(e) ==
    Styled(e, <<"author", "year", "title", "booktitle", "pages", "address">>,
        Join(<<" ">>, <<
            author2html(e.author),
            <<"(">> \o e.year \o <<")", ".">>,
            <<"<", "b", ">">> \o e.title \o <<"<", "/", "b", ">", ".">>,
            <<"I", "n", " ", "<", "i", ">">> \o e.booktitle \o <<"<", "/", "i", ">", ",">>,
            <<"p", "a", "g", "e", "s", " ">> \o e.pages \o <<",">>,
            e.address \o <<".">> >>))

incollection2html(e) ==
    Styled(e, <<"author", "year", "title", "booktitle", "editor", "pages",
                "address", "publisher">>,
        Join(<<" ">>, <<
            author2html(e.author),
            <<"(">> \o e.year \o <<")", ".">>,
            <<"<", "b", ">">> \o e.title \o <<"<", "/", "b", ">", ".">>,
            <<"I", "n", " ", "<", "i", ">">> \o e.booktitle \o <<"<", "/", "i", ">", ",">>,
            <<"e", "d", "i", "t", "e", "d", " ", "b", "y", " ">> \o author2html(e.editor) \o <<",">>,
            <<"p", "a", "g", "e", "s", " ">> \o e.pages \o <<",">>,
            e.address \o <<":">>,
            e.publisher \o <<".">> >>))

misc2html(e) ==
    Styled(e, <<"author", "year", "title", "howpublished">>,
        Join(<<" ">>, <<
            author2html(e.author),
            <<"(">> \o e.year \o <<")", ".">>,
            <<"<", "b", ">">> \o e.title \o <<"<", "/", "b", ">", ".">>,
            <<"<", "i", ">">> \o e.howpublished \o <<"<", "/", "i", ">", ".">> >>))

(***************************************************************************)
(* bibtex2html.                                                            *)
(***************************************************************************)
\* the try block: the style function of the entry type
Dispatch(e) ==
    IF e.ENTRYTYPE = <<"a", "r", "t", "i", "c", "l", "e">> THEN article2html(e)
    ELSE IF e.ENTRYTYPE = <<"b", "o", "o", "k">> \/ e.ENTRYTYPE = <<"p", "r", "o", "c", "e", "e", "d", "i", "n", "g", "s">>
         THEN book2html(e)
    ELSE IF e.ENTRYTYPE = <<"i", "n", "p", "r", "o", "c", "e", "e", "d", "i", "n", "g", "s">> THEN inproceedings2html(e)
    ELSE IF e.ENTRYTYPE = <<"i", "n", "c", "o", "l", "l", "e", "c", "t", "i", "o", "n">> THEN incollection2html(e)
    ELSE IF e.ENTRYTYPE = <<"m", "i", "s", "c">> THEN misc2html(e)
    ELSE Raise("NotImplementedError",
               <<"E", "N", "T", "R", "Y", "T", "Y", "P", "E", " ">> \o e.ENTRYTYPE \o <<" ", "n", "o", "t", " ", "s", "u", "p", "p", "o", "r", "t", "e", "d">>,
               NoException)

\* the keys of `res` in the order of the loop, and the path of each
AssetKinds == << <<"a", "b", "s", "t", "r", "a", "c", "t">>, <<"p", "d", "f">>, <<"s", "l", "i", "d", "e", "s">>, <<"p", "o", "s", "t", "e", "r">> >>

AssetSuffix == << <<"_", "a", "b", "s", "t", "r", "a", "c", "t", ".", "p", "d", "f">>, <<".", "p", "d", "f">>, <<"_", "s", "l", "i", "d", "e", "s", ".", "p", "d", "f">>, <<"_", "p", "o", "s", "t", "e", "r", ".", "p", "d", "f">> >>

AssetPath(e, dir, i) == dir \o e.ID \o AssetSuffix[i]

RECURSIVE AssetLinks(_, _, _, _)
AssetLinks(e, dir, files, i) ==
    IF i > Len(AssetKinds) THEN <<>>
    ELSE (IF AssetPath(e, dir, i) \in files
          THEN <<",", " ", "<", "a", " ", "h", "r", "e", "f", "=", "\"">> \o AssetPath(e, dir, i) \o <<"\"", ">">>
               \o AssetKinds[i] \o <<"<", "/", "a", ">">>
          ELSE <<>>)
         \o AssetLinks(e, dir, files, i + 1)

\* the bracketed link list
Links(e, dir, files) ==
    <<" ", "[">>
    \o <<"<", "a", " ", "h", "r", "e", "f", "=", "\"">> \o Join(<<"/">>, << <<"b", "i", "b">>, e.ID \o <<".", "b", "i", "b">> >>)
    \o <<"\"", ">", "b", "i", "b", "<", "/", "a", ">">>
    \o (IF "url" \in DOMAIN e
        THEN <<",", " ", "<", "a", " ", "h", "r", "e", "f", "=", "\"">> \o e.url \o <<"\"", ">", "w", "e", "b", "<", "/", "a", ">">> ELSE <<>>)
    \o AssetLinks(e, dir, files, 1)
    \o <<"]", "\n">>

\* "unescape stuff"
Unescape(out) ==
    Replace(Replace(Replace(Replace(out,
        <<Backtick, Backtick>>, <<"&", "l", "d", "q", "u", "o", ";">>),
        <<"'", "'">>, <<"&", "r", "d", "q", "u", "o", ";">>),
        <<"\\", "_">>, <<"_">>),
        <<"\\", "&">>, <<"&">>)

\* a faulty variant of RemoveCapitalizers: only the opening braces are removed
RemoveOpeningBraces(out) == SelectSeq(out, LAMBDA c : c # "{")

\* "remove capitalizers"
RemoveCapitalizers(out) == SubBraces(out)

\* A KeyError of the style function is replaced by a NotImplementedError
\* (the entry is printed to stdout first); any other exception passes.
bibtex2html(e, dir, files) ==
    LET out == Dispatch(e)
    IN  IF out.exc = "KeyError"
        THEN Raise("NotImplementedError", <<"c", "a", "n", "'", "t", " ", "d", "e", "a", "l", " ", "w", "i", "t", "h", " ", "t", "h", "i", "s">>, out)
        ELSE IF out.exc # "none" THEN out
        ELSE Return(Unescape(RemoveCapitalizers(out.value)
                             \o Links(e, dir, files)))

(***************************************************************************)
(* SpecRender: bibtex2html applied to one record.                          *)
(***************************************************************************)
\* the most fields a record lacks of those the style of its type reads
MaxMissing == 2

Restrict(f, S) == [x \in S |-> f[x]]

SubsetsUpTo(S, n) == {T \in SUBSET S : Cardinality(T) <= n}

\* every field a style function reads, with a value
AllFields ==
    [author |-> <<"H", "e", "i", "n", "r", "i", "c", "h", ",", " ", "P", ".", " ", "a", "n", "d", " ", "S", "m", "i", "t", "h", ",", " ", "J", ".">>,
     editor |-> <<"H", "e", "i", "n", "r", "i", "c", "h", ",", " ", "P", "h", "i", "l", "i", "p", "p">>,
     year |-> <<"2", "0", "2", "0">>,
     title |-> <<"t">>,
     journal |-> <<"J">>,
     volume |-> <<"7">>,
     number |-> <<"2">>,
     pages |-> <<"1", EnDash, "9">>,
     booktitle |-> <<"{", "P", "}", "r", "o", "c">>,
     address |-> <<"U", "l", "m">>,
     publisher |-> <<"P", "u", "b">>,
     howpublished |-> <<"T", "a", "l", "k">>]

\* the fields the style of an entry type reads (none for another type)
FieldsRead(type) ==
    IF type = <<"a", "r", "t", "i", "c", "l", "e">>
    THEN {"author", "year", "title", "journal", "volume", "number", "pages"}
    ELSE IF type \in { <<"b", "o", "o", "k">>, <<"p", "r", "o", "c", "e", "e", "d", "i", "n", "g", "s">> }
    THEN {"author", "editor", "year", "title", "address", "publisher"}
    ELSE IF type = <<"i", "n", "p", "r", "o", "c", "e", "e", "d", "i", "n", "g", "s">>
    THEN {"author", "year", "title", "booktitle", "pages", "address"}
    ELSE IF type = <<"i", "n", "c", "o", "l", "l", "e", "c", "t", "i", "o", "n">>
    THEN {"author", "year", "title", "booktitle", "editor", "pages",
          "address", "publisher"}
    ELSE IF type = <<"m", "i", "s", "c">>
    THEN {"author", "year", "title", "howpublished"}
    ELSE {"author", "year", "title"}

RenderTypes == { <<"a", "r", "t", "i", "c", "l", "e">>, <<"b", "o", "o", "k">>, <<"p", "r", "o", "c", "e", "e", "d", "i", "n", "g", "s">>, <<"i", "n", "p", "r", "o", "c", "e", "e", "d", "i", "n", "g", "s">>,
                 <<"i", "n", "c", "o", "l", "l", "e", "c", "t", "i", "o", "n">>, <<"m", "i", "s", "c">>, <<"p", "h", "d", "t", "h", "e", "s", "i", "s">> }

RenderTitles == { <<"t">>, <<"{", "T", "}", "h", "e", " ", "{", "B", "}">>, <<Backtick, Backtick, "a", "'", "'", "\\", "_", "\\", "&">> }

RenderUrls == { <<"u">>, <<"u", "/", "{", "x", "}">> }

RenderIds == { <<"h", "2", "1">>, <<"h", "{", "2", "1", "}">> }

RenderDirs == { <<"p", "d", "f", "/">>, <<"{", "p", "}", "/">> }

\* the records of one entry type
RenderInputsOf(type) ==
    {[ENTRYTYPE |-> type, ID |-> id]
        @@ Restrict([AllFields EXCEPT !.title = t], FieldsRead(type) \ lacking)
        @@ opt :
        id \in RenderIds, t \in RenderTitles,
        lacking \in SubsetsUpTo(FieldsRead(type), MaxMissing),
        opt \in {<<>>} \cup {[url |-> u] : u \in RenderUrls}}

RenderInputs == UNION {RenderInputsOf(type) : type \in RenderTypes}

InitRender ==
    /\ pc = "bibtex2html"
    /\ entry \in RenderInputs
    /\ pdf_dir \in RenderDirs
    /\ \E kinds \in {{}, {2, 3}} :
           isfile = {AssetPath(entry, pdf_dir, i) : i \in kinds}
    /\ ret = None
    /\ cursor = 0
    /\ MainIdle
    /\ order = None /\ author = None

Bibtex2Html ==
    /\ pc = "bibtex2html"
    /\ ret' = bibtex2html(entry, pdf_dir, isfile)
    /\ pc' = "returned"
    /\ UNCHANGED <<mainVars, order, cursor, entry, author, pdf_dir, isfile>>

SpecRender == InitRender /\ [][Bibtex2Html]_vars

HasBrace(s) == \E i \in DOMAIN s : s[i] \in {"{", "}"}

\* C5 as stated: a returned citation holds no "{" and no "}", whatever the
\* record's fields hold.
CitationHasNoBraces ==
    (pc = "returned" /\ ret.exc = "none") => ~HasBrace(ret.value)

\* C5 as amended: a returned citation of a record whose id and url, and the
\* pdf_dir, hold no brace holds no brace, whatever its other fields hold.
CitationHasNoBracesButInLinks ==
    (/\ pc = "returned" /\ ret.exc = "none"
     /\ ~HasBrace(entry.ID)
     /\ ~HasBrace(pdf_dir)
     /\ ("url" \in DOMAIN entry => ~HasBrace(entry.url)))
    => ~HasBrace(ret.value)

BracesStrippedWitness ==
    /\ pc = "returned" /\ ret.exc = "none"
    /\ ~HasBrace(entry.ID) /\ ~HasBrace(pdf_dir)
    /\ "url" \in DOMAIN entry /\ ~HasBrace(entry.url)
    /\ HasBrace(entry.title)
    /\ isfile # {}


\* the fields the style of an entry type requires, as the renderer's table
\* of required fields has them
RequiredFields(type) ==
    IF type = <<"a", "r", "t", "i", "c", "l", "e">>
    THEN {"author", "title", "journal", "year", "volume", "pages"}
    ELSE IF type \in { <<"b", "o", "o", "k">>, <<"p", "r", "o", "c", "e", "e", "d", "i", "n", "g", "s">> }
    THEN {"title", "year", "address", "publisher"}
    ELSE IF type = <<"i", "n", "p", "r", "o", "c", "e", "e", "d", "i", "n", "g", "s">>
    THEN {"author", "title", "booktitle", "pages", "address", "year"}
    ELSE IF type = <<"i", "n", "c", "o", "l", "l", "e", "c", "t", "i", "o", "n">>
    THEN {"author", "title", "booktitle", "editor", "pages", "address",
          "publisher", "year"}
    ELSE IF type = <<"m", "i", "s", "c">>
    THEN {"author", "title", "howpublished", "year"}
    ELSE {}

\* the names of the required fields a record lacks; a book or proceedings
\* with neither author nor editor lacks "author-or-editor"
MissingFieldNames(e) ==
    {KeyStr[f] : f \in RequiredFields(e.ENTRYTYPE) \ DOMAIN e}
    \cup (IF /\ e.ENTRYTYPE \in { <<"b", "o", "o", "k">>, <<"p", "r", "o", "c", "e", "e", "d", "i", "n", "g", "s">> }
             /\ "author" \notin DOMAIN e /\ "editor" \notin DOMAIN e
          THEN { <<"a", "u", "t", "h", "o", "r", "-", "o", "r", "-", "e", "d", "i", "t", "o", "r">> } ELSE {})

\* what an exception tells: its message or that of its __context__
Tells(r, s) == Contains(r.msg, s) \/ Contains(r.context.msg, s)

\* C3: a record of a rendered type that lacks a required field makes
\* bibtex2html raise an error that identifies the record id and the name
\* of a missing field.
MissingFieldErrorIdentifiesRecordAndField ==
    (pc = "returned" /\ MissingFieldNames(entry) # {}) =>
        /\ ret.exc # "none"
        /\ Tells(ret, entry.ID)
        /\ \E name \in MissingFieldNames(entry) : Tells(ret, name)

\* the half of C3 the code keeps: no citation is returned
MissingFieldNeverRendered ==
    (pc = "returned" /\ MissingFieldNames(entry) # {}) => ret.exc # "none"


(***************************************************************************)
(* order_db: the classifier.                                               *)
(***************************************************************************)
\* a faulty variant of SharedTaskAt: the pattern without its optional whitespace
SharedTaskAtNoGap(s, i) ==
    StartsAt(s, i, <<"s", "h", "a", "r", "e", "d", "t", "a", "s", "k">>)

\* shared\s?task matches at i
SharedTaskAt(s, i) ==
    /\ StartsAt(s, i, <<"s", "h", "a", "r", "e", "d">>)
    /\ \/ StartsAt(s, i + 6, <<"t", "a", "s", "k">>)
       \/ /\ i + 6 <= Len(s)
          /\ s[i + 6] \in Whitespace
          /\ StartsAt(s, i + 7, <<"t", "a", "s", "k">>)

\* re.search(r"shared\s?task", s) finds a match
SearchSharedTask(s) == \E i \in 1..Len(s) : SharedTaskAt(s, i)

\* the key of an entry when order == "ENTRYTYPE"
CategoryKey(e) ==
    IF "note" \in DOMAIN e /\ SearchSharedTask(lower(e.note))
    THEN <<"s", "h", "a", "r", "e", "d", "t", "a", "s", "k">>
    ELSE e.ENTRYTYPE

\* the key of an entry when order == 'date'; the entry has one of the two
DateKey(e) == IF "date" \in DOMAIN e THEN e.date ELSE e.year

\* col[key], col a defaultdict(BibDatabase): the entries of a new, empty
\* database when col has no such key
Entries(col, key) == IF key \in DOMAIN col THEN col[key] ELSE <<>>

\* a faulty variant of AppendTo: the entry is put at the front of its group
PrependTo(col, key, e) ==
    [k \in DOMAIN col \cup {key} |->
        IF k = key THEN <<e>> \o Entries(col, key) ELSE col[k]]

\* col[key].entries.append(e)
AppendTo(col, key, e) ==
    [k \in DOMAIN col \cup {key} |->
        IF k = key THEN Append(Entries(col, key), e) ELSE col[k]]

RECURSIVE OrderFrom(_, _, _, _)
\* the loop of order_db from the i-th entry on
OrderFrom(col, entries, i, ord) ==
    IF i > Len(entries) THEN Return(col)
    ELSE LET e == entries[i]
         IN  IF ord = "ENTRYTYPE"
             THEN OrderFrom(AppendTo(col, CategoryKey(e), e), entries, i + 1, ord)
             ELSE IF ord = "date"
             THEN IF "date" \notin DOMAIN e /\ "year" \notin DOMAIN e
                  THEN KeyError("year")
                  ELSE OrderFrom(AppendTo(col, DateKey(e), e), entries, i + 1, ord)
             ELSE OrderFrom(col, entries, i + 1, ord)

order_db(entries, ord) == OrderFrom(<<>>, entries, 1, ord)

(***************************************************************************)
(* SpecOrder: order_db applied to a sequence of records, in either mode.   *)
(***************************************************************************)
\* the most records of a database
MaxEntries == 3

OrderNotes == { <<"S", "h", "a", "r", "e", "d", "T", "a", "s", "k", " ", "r", "e", "s", "u", "l", "t", "s">>,
                <<"a", " ", "s", "h", "a", "r", "e", "d", " ", "t", "a", "s", "k">>,
                <<"S", "h", "a", "r", "e", "d", "-", "T", "a", "s", "k">>,
                <<"s", "h", "a", "r", "e", "d", "\t", "t", "a", "s", "k">>,
                <<"s", "h", "a", "r", "e", "d", " ", " ", "t", "a", "s", "k">>,
                <<"i", "n", "v", "i", "t", "e", "d", " ", "t", "a", "l", "k">> }

OrderPool ==
    {[ENTRYTYPE |-> <<"i", "n", "p", "r", "o", "c", "e", "e", "d", "i", "n", "g", "s">>, ID |-> <<"n">>, year |-> <<"2", "0", "2", "0">>,
      note |-> n] : n \in OrderNotes}
    \cup {[ENTRYTYPE |-> type, ID |-> <<"d">>] @@ dates :
            type \in { <<"a", "r", "t", "i", "c", "l", "e">>, <<"m", "i", "s", "c">> },
            dates \in {<<>>,
                       [year |-> <<"2", "0", "2", "0">>],
                       [year |-> <<"2", "0", "2", "0">>, date |-> <<"2", "0", "2", "1", "-", "0", "3">>]}}

SeqsUpTo(S, n) == UNION {[1..k -> S] : k \in 0..n}

InitOrder ==
    /\ pc = "order_db"
    /\ db \in SeqsUpTo(OrderPool, MaxEntries)
    /\ order \in {"ENTRYTYPE", "date"}
    /\ ret = None
    /\ cursor = 0
    /\ paths_in = 0 /\ parsed = <<>> /\ db_ordered = <<>>
    /\ tsv = Unopened /\ bib = Unopened /\ html = Unopened
    /\ entry = None /\ author = None /\ pdf_dir = None /\ isfile = {}

OrderDb ==
    /\ pc = "order_db"
    /\ ret' = order_db(db, order)
    /\ pc' = "returned"
    /\ UNCHANGED <<mainVars, order, cursor, entry, author, pdf_dir, isfile>>

SpecOrder == InitOrder /\ [][OrderDb]_vars

\* the group of a key in what order_db returned
Group(key) == Entries(ret.value, key)

\* the record is in the group of `key` and in no other group
OnlyInGroup(e, key) ==
    /\ e \in Range(Group(key))
    /\ \A k \in DOMAIN ret.value \ {key} : e \notin Range(ret.value[k])

\* the note, in lower case, holds "shared", one of the separators, "task"
NoteSaysSharedTask(e, separators) ==
    /\ "note" \in DOMAIN e
    /\ \E sep \in separators :
           Contains(lower(e.note), <<"s", "h", "a", "r", "e", "d">> \o sep \o <<"t", "a", "s", "k">>)

\* C4 as stated: a record is put in the category sharedtask if and only if
\* its note says "shared", an optional space or hyphen, "task", whatever the
\* case; every other record is put in the category of its entry type.
SharedTaskBySpaceOrHyphen ==
    (pc = "returned" /\ order = "ENTRYTYPE") =>
        \A i \in DOMAIN db :
            OnlyInGroup(db[i],
                IF NoteSaysSharedTask(db[i], {<<>>, <<" ">>, <<"-">>})
                THEN <<"s", "h", "a", "r", "e", "d", "t", "a", "s", "k">> ELSE db[i].ENTRYTYPE)

\* C4 as amended: the optional separator is one whitespace character (a
\* space, a tab, ...), and not a hyphen.
SharedTaskByWhitespace ==
    (pc = "returned" /\ order = "ENTRYTYPE") =>
        \A i \in DOMAIN db :
            OnlyInGroup(db[i],
                IF NoteSaysSharedTask(db[i], {<<>>} \cup {<<w>> : w \in Whitespace})
                THEN <<"s", "h", "a", "r", "e", "d", "t", "a", "s", "k">> ELSE db[i].ENTRYTYPE)

SharedTaskWitness ==
    /\ pc = "returned" /\ order = "ENTRYTYPE"
    /\ \E i, j, k \in DOMAIN db :
          /\ db[i].ENTRYTYPE = <<"i", "n", "p", "r", "o", "c", "e", "e", "d", "i", "n", "g", "s">>
          /\ "note" \in DOMAIN db[i] /\ db[i].note = <<"S", "h", "a", "r", "e", "d", "T", "a", "s", "k", " ", "r", "e", "s", "u", "l", "t", "s">>
          /\ db[i] \in Range(Group(<<"s", "h", "a", "r", "e", "d", "t", "a", "s", "k">>))
          /\ "note" \in DOMAIN db[j] /\ db[j].note = <<"S", "h", "a", "r", "e", "d", "-", "T", "a", "s", "k">>
          /\ db[j] \in Range(Group(<<"i", "n", "p", "r", "o", "c", "e", "e", "d", "i", "n", "g", "s">>))
          /\ "note" \notin DOMAIN db[k]

\* the key order_db files a record under
KeyOf(e) == IF order = "ENTRYTYPE" THEN CategoryKey(e) ELSE DateKey(e)

HasNoDate(e) == "date" \notin DOMAIN e /\ "year" \notin DOMAIN e

\* C9: order_db is a stable partition: every group holds exactly the input
\* records of its key, each once, in input order, and there is a group for
\* every key of the input and no other; in by-date mode a record with
\* neither date nor year makes it raise.
StablePartition ==
    pc = "returned" =>
        IF order = "date" /\ \E i \in DOMAIN db : HasNoDate(db[i])
        THEN ret.exc = "KeyError"
        ELSE /\ ret.exc = "none"
             /\ DOMAIN ret.value = {KeyOf(db[i]) : i \in DOMAIN db}
             /\ \A key \in DOMAIN ret.value :
                    ret.value[key] = SelectSeq(db, LAMBDA e : KeyOf(e) = key)

StablePartitionWitness ==
    /\ pc = "returned" /\ ret.exc = "none" /\ order = "date"
    /\ Len(db) = 3
    /\ DateKey(db[1]) = DateKey(db[3])
    /\ DateKey(db[1]) # DateKey(db[2])
    /\ db[1] # db[3]
    /\ Group(DateKey(db[1])) = <<db[1], db[3]>>

RaisesWithoutDateWitness ==
    /\ pc = "returned" /\ order = "date" /\ ret.exc = "KeyError"
    /\ Len(db) = 2 /\ ~HasNoDate(db[1]) /\ HasNoDate(db[2])


(***************************************************************************)
(* read_many_bibs: the loader.  The text of the files and its parse are    *)
(* bibtexparser's; the model takes the number of paths and the entries of  *)
(* the parsed database.                                                    *)
(***************************************************************************)
IsComment(e) == e.ENTRYTYPE = <<"c", "o", "m", "m", "e", "n", "t">>

\* the TRANSFORM block: the entries that are no comments, each formatted
Consistencize(entries) ==
    LET kept == SelectSeq(entries, LAMBDA e : ~IsComment(e))
    IN  [i \in DOMAIN kept |-> formatter(kept[i])]

read_many_bibs(n, entries) ==
    IF Len(entries) # n
    THEN Raise("AssertionError", <<>>, NoException)
    ELSE Return(Consistencize(entries))

(***************************************************************************)
(* sorted() of str keys.                                                   *)
(***************************************************************************)
\* a < b of two strs: by the code points at the first difference, a proper
\* prefix being the smaller
StrLess(a, b) ==
    LET differ == {i \in 1..Min({Len(a), Len(b)}) : a[i] # b[i]}
    IN  IF differ = {} THEN Len(a) < Len(b)
        ELSE Ord(a[Min(differ)]) < Ord(b[Min(differ)])

RECURSIVE Sorted(_)
\* sorted(keys) of the keys of a dict (no two are equal)
Sorted(keys) ==
    IF keys = {} THEN <<>>
    ELSE LET least == CHOOSE a \in keys : \A b \in keys \ {a} : StrLess(a, b)
         IN  <<least>> \o Sorted(keys \ {least})

\* a faulty variant of SortedReverse: reverse=True is left out
SortedForward(keys) == Sorted(keys)

\* sorted(keys, reverse=True)
SortedReverse(keys) ==
    LET up == Sorted(keys) IN [i \in DOMAIN up |-> up[Len(up) + 1 - i]]

RECURSIVE Concat(_)
Concat(seqs) ==
    IF Len(seqs) = 0 THEN <<>> ELSE Head(seqs) \o Concat(Tail(seqs))

(***************************************************************************)
(* main: the pipeline driver.                                              *)
(***************************************************************************)
\* the keys of `types` in the order of the dict, and their labels
TypeKeys == << <<"a", "r", "t", "i", "c", "l", "e">>, <<"b", "o", "o", "k">>, <<"p", "r", "o", "c", "e", "e", "d", "i", "n", "g", "s">>, <<"i", "n", "p", "r", "o", "c", "e", "e", "d", "i", "n", "g", "s">>,
               <<"i", "n", "c", "o", "l", "l", "e", "c", "t", "i", "o", "n">>, <<"s", "h", "a", "r", "e", "d", "t", "a", "s", "k">>, <<"m", "i", "s", "c">> >>

TypeLabels == << <<"J", "o", "u", "r", "n", "a", "l", " ", "A", "r", "t", "i", "c", "l", "e", "s">>,
                 <<"E", "d", "i", "t", "e", "d", " ", "V", "o", "l", "u", "m", "e", "s">>,
                 <<"E", "d", "i", "t", "e", "d", " ", "C", "o", "n", "f", "e", "r", "e", "n", "c", "e", " ", "P", "r", "o", "c", "e", "e", "d", "i", "n", "g", "s">>,
                 <<"A", "r", "t", "i", "c", "l", "e", "s", " ", "i", "n", " ", "C", "o", "n", "f", "e", "r", "e", "n", "c", "e", " ", "P", "r", "o", "c", "e", "e", "d", "i", "n", "g", "s">>,
                 <<"A", "r", "t", "i", "c", "l", "e", "s", " ", "i", "n", " ", "C", "o", "l", "l", "e", "c", "t", "i", "o", "n", "s">>,
                 <<"S", "h", "a", "r", "e", "d", " ", "T", "a", "s", "k", "s">>,
                 <<"T", "a", "l", "k", "s", " ", "a", "n", "d", " ", "P", "r", "e", "s", "e", "n", "t", "a", "t", "i", "o", "n", "s">> >>

\* date.today().strftime("%B %d, %Y"), the clock's
today == <<"N", "o", "v", "e", "m", "b", "e", "r", " ", "0", "4", ",", " ", "2", "0", "2", "6">>

\* "%" * 60
Rule == [i \in 1..60 |-> "%"]

\* what one write() call puts in a file
Text(t) == [kind |-> "text", text |-> t]

Banner(key) ==
    [kind |-> "banner", key |-> key,
     text |-> Rule \o <<"\n", "%", " ">> \o key \o <<"\n">> \o Rule \o <<"\n">>]

\* writer.write(database): the serialization is BibTexWriter's
Serialized(entries) == [kind |-> "entries", entries |-> entries]

Heading(i) ==
    [kind |-> "h3", key |-> TypeKeys[i],
     text |-> <<"<", "h", "3", ">">> \o TypeLabels[i] \o <<"<", "/", "h", "3", ">", "\n">>]

Item(e, dir, files) ==
    [kind |-> "li", bib |-> e,
     text |-> <<"<", "l", "i", ">", " ">> \o bibtex2html(e, dir, files).value]

Opened(content) == [opened |-> TRUE, closed |-> FALSE, content |-> content]

\* leaving a with block, by its end or by an exception, closes the file
Closed(content) == [opened |-> TRUE, closed |-> TRUE, content |-> content]

\* db = read_many_bibs(paths_in)
ReadManyBibs ==
    /\ pc = "read_many_bibs"
    /\ LET r == read_many_bibs(paths_in, parsed)
       IN  IF r.exc # "none"
           THEN pc' = "raised" /\ ret' = r /\ db' = db
           ELSE pc' = "to_csv" /\ ret' = ret /\ db' = r.value
    /\ UNCHANGED <<paths_in, parsed, db_ordered, tsv, bib, html>>
    /\ UNCHANGED <<order, cursor, entry, author, pdf_dir, isfile>>

\* DataFrame(db.entries).to_csv(path_tsv, sep="\t"): a row for each entry
ToCsv ==
    /\ pc = "to_csv"
    /\ tsv' = Closed(db)
    /\ pc' = "order_db"
    /\ UNCHANGED <<paths_in, parsed, db, db_ordered, bib, html>>
    /\ UNCHANGED <<order, cursor, entry, author, pdf_dir, isfile, ret>>

\* db_ordered = order_db(db)
OrderDbByType ==
    /\ pc = "order_db"
    /\ db_ordered' = order_db(db, "ENTRYTYPE").value
    /\ pc' = "open_bib"
    /\ UNCHANGED <<paths_in, parsed, db, tsv, bib, html>>
    /\ UNCHANGED <<order, cursor, entry, author, pdf_dir, isfile, ret>>

\* with open(path_bib, 'wt') as bibfile
OpenBib ==
    /\ pc = "open_bib"
    /\ bib' = Opened(<<>>)
    /\ cursor' = 1
    /\ pc' = "bib"
    /\ UNCHANGED <<paths_in, parsed, db, db_ordered, tsv, html>>
    /\ UNCHANGED <<order, entry, author, pdf_dir, isfile, ret>>

\* one iteration of "for key in sorted(db_ordered.keys())": the banner, then
\* the groups of the category by date, latest first
WriteBibCategory ==
    /\ pc = "bib"
    /\ cursor <= Len(Sorted(DOMAIN db_ordered))
    /\ LET key == Sorted(DOMAIN db_ordered)[cursor]
           dates == order_db(db_ordered[key], "date")
           keys2 == SortedReverse(DOMAIN dates.value)
       IN  IF dates.exc # "none"
           THEN /\ bib' = Closed(Append(bib.content, Banner(key)))
                /\ pc' = "raised" /\ ret' = dates /\ cursor' = cursor
           ELSE /\ bib' = Opened(Append(bib.content, Banner(key))
                     \o [i \in DOMAIN keys2 |-> Serialized(dates.value[keys2[i]])])
                /\ pc' = pc /\ ret' = ret /\ cursor' = cursor + 1
    /\ UNCHANGED <<paths_in, parsed, db, db_ordered, tsv, html>>
    /\ UNCHANGED <<order, entry, author, pdf_dir, isfile>>

\* the end of the with block of the bib file
CloseBib ==
    /\ pc = "bib"
    /\ cursor > Len(Sorted(DOMAIN db_ordered))
    /\ bib' = Closed(bib.content)
    /\ pc' = "check"
    /\ UNCHANGED <<paths_in, parsed, db, db_ordered, tsv, html>>
    /\ UNCHANGED <<order, cursor, entry, author, pdf_dir, isfile, ret>>

\* "check if all keys are taken care of"
CheckKeys ==
    /\ pc = "check"
    /\ IF Cardinality(DOMAIN db_ordered \cup Range(TypeKeys)) # Len(TypeKeys)
       THEN pc' = "raised" /\ ret' = Raise("ValueError", <<>>, NoException)
       ELSE pc' = "open_html" /\ ret' = ret
    /\ UNCHANGED mainVars
    /\ UNCHANGED <<order, cursor, entry, author, pdf_dir, isfile>>

\* with open(path_html, 'wt') as htmlfile: htmlfile.write("<html>\n")
OpenHtml ==
    /\ pc = "open_html"
    /\ html' = Opened(<<Text(<<"<", "h", "t", "m", "l", ">", "\n">>)>>)
    /\ cursor' = 1
    /\ pc' = "html"
    /\ UNCHANGED <<paths_in, parsed, db, db_ordered, tsv, bib>>
    /\ UNCHANGED <<order, entry, author, pdf_dir, isfile, ret>>

\* one iteration of "for key in types.keys()": the heading, and the citations
\* of the category by date, latest first, up to the first that raises
WriteHtmlCategory ==
    /\ pc = "html"
    /\ cursor <= Len(TypeKeys)
    /\ LET key == TypeKeys[cursor]
           group == Entries(db_ordered, key)
           dates == order_db(group, "date")
           keys2 == SortedReverse(DOMAIN dates.value)
           bibs == Concat([i \in DOMAIN keys2 |-> dates.value[keys2[i]]])
           bad == First(bibs, {k \in 1..Len(bibs) :
                      bibtex2html(bibs[k], pdf_dir, isfile).exc # "none"})
           items == [i \in 1..(bad - 1) |-> Item(bibs[i], pdf_dir, isfile)]
           head == Append(html.content, Heading(cursor))
       IN  /\ db_ordered' = [k \in DOMAIN db_ordered \cup {key} |->
                                 Entries(db_ordered, k)]
           /\ IF dates.exc # "none"
              THEN /\ html' = Closed(head)
                   /\ pc' = "raised" /\ ret' = dates /\ cursor' = cursor
              ELSE IF bad <= Len(bibs)
              THEN /\ html' = Closed(Append(head, Text(<<"<", "u", "l", ">", "\n">>)) \o items)
                   /\ pc' = "raised" /\ cursor' = cursor
                   /\ ret' = bibtex2html(bibs[bad], pdf_dir, isfile)
              ELSE /\ html' = Opened(Append(head, Text(<<"<", "u", "l", ">", "\n">>)) \o items
                                     \o <<Text(<<"<", "/", "u", "l", ">", "\n">>)>>)
                   /\ pc' = pc /\ ret' = ret /\ cursor' = cursor + 1
    /\ UNCHANGED <<paths_in, parsed, db, tsv, bib>>
    /\ UNCHANGED <<order, entry, author, pdf_dir, isfile>>

\* the footer, and the end of the with block of the html file
WriteHtmlFooter ==
    /\ pc = "html"
    /\ cursor > Len(TypeKeys)
    /\ html' = Closed(html.content \o <<
           Text(<<"<", "f", "o", "o", "t", "e", "r", ">", "\n">>),
           Text(<<"l", "a", "s", "t", " ", "u", "p", "d", "a", "t", "e", ":", " ">> \o today \o <<"\n">>),
           Text(<<"<", "/", "f", "o", "o", "t", "e", "r", ">", "\n">>),
           Text(<<"<", "/", "h", "t", "m", "l", ">">>) >>)
    /\ pc' = "done"
    /\ UNCHANGED <<paths_in, parsed, db, db_ordered, tsv, bib>>
    /\ UNCHANGED <<order, cursor, entry, author, pdf_dir, isfile, ret>>


(***************************************************************************)
(* Spec: a run of main over a parsed corpus.                               *)
(***************************************************************************)
\* a complete @article
Article(id, dates) ==
    [ENTRYTYPE |-> <<"a", "r", "t", "i", "c", "l", "e">>, ID |-> id,
     author |-> <<"H", "e", "i", "n", "r", "i", "c", "h", ",", " ", "P", ".", " ", "a", "n", "d", " ", "A", "y", ",", " ", "B", ".">>,
     title |-> <<"O", "n", "\n", "B", "i", "b", "s">>, journal |-> <<"J">>, volume |-> <<"7">>,
     pages |-> <<"1", " ", "-", " ", "9">>] @@ dates

MainPool ==
    { Article(<<"a", "2", "1">>, [year |-> <<"2", "0", "2", "0">>, date |-> <<"2", "0", "2", "1", "-", "0", "3">>]),
      Article(<<"a", "2", "0">>, [year |-> <<"2", "0", "2", "0">>]),
      Article(<<"b", "2", "0">>, [year |-> <<"2", "0", "2", "0">>]),
      \* an @inproceedings of a shared task
      [ENTRYTYPE |-> <<"i", "n", "p", "r", "o", "c", "e", "e", "d", "i", "n", "g", "s">>, ID |-> <<"s", "1", "9">>,
       author |-> <<"A", "y", ",", " ", "B", ".">>, title |-> <<"{", "T", "}", "a", "s", "k">>, booktitle |-> <<"P", "r", "o", "c">>,
       pages |-> <<"3", "-", "-", "4">>, address |-> <<"U", "l", "m">>, year |-> <<"2", "0", "1", "9">>,
       note |-> <<"S", "h", "a", "r", "e", "d", "T", "a", "s", "k", " ", "r", "e", "s", "u", "l", "t", "s">>],
      \* an @article without pages
      [ENTRYTYPE |-> <<"a", "r", "t", "i", "c", "l", "e">>, ID |-> <<"x", "2", "1">>,
       author |-> <<"A", "y", ",", " ", "B", ".">>, title |-> <<"t">>, journal |-> <<"J">>,
       volume |-> <<"7">>, year |-> <<"2", "0", "2", "1">>],
      \* a type that is none of the keys of `types`
      [ENTRYTYPE |-> <<"p", "h", "d", "t", "h", "e", "s", "i", "s">>, ID |-> <<"t", "1", "8">>,
       author |-> <<"A", "y", ",", " ", "B", ".">>, title |-> <<"t">>, year |-> <<"2", "0", "1", "8">>],
      \* a @misc with neither date nor year
      [ENTRYTYPE |-> <<"m", "i", "s", "c">>, ID |-> <<"m", "0", "0">>,
       author |-> <<"A", "y", ",", " ", "B", ".">>, title |-> <<"t">>, howpublished |-> <<"T", "a", "l", "k">>],
      [ENTRYTYPE |-> <<"c", "o", "m", "m", "e", "n", "t">>, ID |-> <<"c", "0", "0">>] }

Init ==
    /\ pc = "read_many_bibs"
    /\ paths_in \in 0..MaxEntries
    /\ parsed \in SeqsUpTo(MainPool, MaxEntries)
    /\ db = <<>> /\ db_ordered = <<>>
    /\ tsv = Unopened /\ bib = Unopened /\ html = Unopened
    /\ pdf_dir = <<"p", "d", "f", "/">>
    /\ isfile = { <<"p", "d", "f", "/", "a", "2", "1", ".", "p", "d", "f">>, <<"p", "d", "f", "/", "s", "1", "9", "_", "s", "l", "i", "d", "e", "s", ".", "p", "d", "f">> }
    /\ cursor = 0
    /\ ret = None
    /\ order = None /\ entry = None /\ author = None

Next ==
    \/ ReadManyBibs
    \/ ToCsv
    \/ OrderDbByType
    \/ OpenBib
    \/ WriteBibCategory
    \/ CloseBib
    \/ CheckKeys
    \/ OpenHtml
    \/ WriteHtmlCategory
    \/ WriteHtmlFooter

Spec == Init /\ [][Next]_vars

\* the run is over
Ended == pc \in {"done", "raised"}

Written(file) == file.opened

Complete(file) == file.opened /\ file.closed

\* C1: when the classification by category yields a key that is none of
\* the seven presentation categories, the run fails, and it fails before
\* any of the three output files has been opened or written.
UnknownCategoryFailsBeforeOutput ==
    /\ (Ended /\ \E i \in DOMAIN db : CategoryKey(db[i]) \notin Range(TypeKeys))
           => pc = "raised"
    /\ (pc = "raised" /\ ret.exc = "ValueError")
           => ~Written(tsv) /\ ~Written(bib) /\ ~Written(html)

\* C2: a run is all or nothing: it ends with the three files completely
\* written, or with an error and none of them written.
AllOrNothing ==
    Ended =>
        \/ pc = "done" /\ Complete(tsv) /\ Complete(bib) /\ Complete(html)
        \/ pc = "raised" /\ ~Written(tsv) /\ ~Written(bib) /\ ~Written(html)

\* read_many_bibs has returned (and has not raised)
Loaded == pc # "read_many_bibs" /\ ~(pc = "raised" /\ ret.exc = "AssertionError")

\* C10: when read_many_bibs returns, the database holds as many records as
\* there are input paths, none of them a comment, and the parse held no
\* comment.
LoadedCountIsPathCount ==
    Loaded =>
        /\ Len(db) = paths_in
        /\ \A i \in DOMAIN db : ~IsComment(db[i])
        /\ \A i \in DOMAIN parsed : ~IsComment(parsed[i])


\* the writes of a kind in the hypertext file
Writes(kind) == SelectSeq(html.content, LAMBDA w : w.kind = kind)

\* the key of the heading the i-th write stands under
SectionOf(i) ==
    LET above == {j \in 1..i : html.content[j].kind = "h3"}
    IN  html.content[CHOOSE j \in above : \A k \in above : k <= j].key

\* the indices of the citations of the hypertext file
Citations == {i \in DOMAIN html.content : html.content[i].kind = "li"}

Cited(i) == html.content[i].bib

\* two records of one category and one DateKey
SameClass(e, f) == CategoryKey(e) = CategoryKey(f) /\ DateKey(e) = DateKey(f)

\* C8: in the hypertext file of a finished run the seven sections stand in
\* the order of `types`; every citation stands in the section of its
\* record's category; within a section the DateKeys do not increase;
\* records of one section and one DateKey keep their input order; and every
\* record of the database is cited exactly once.
HtmlSectionsOrderedByDate ==
    pc = "done" =>
        /\ LET heads == Writes("h3")
           IN  /\ [i \in DOMAIN heads |-> heads[i].key] = TypeKeys
               /\ \A i \in DOMAIN heads :
                      heads[i].text = <<"<", "h", "3", ">">> \o TypeLabels[i] \o <<"<", "/", "h", "3", ">", "\n">>
        /\ \A i \in Citations : SectionOf(i) = CategoryKey(Cited(i))
        /\ \A i, j \in Citations :
               (i < j /\ SectionOf(i) = SectionOf(j))
                   => ~StrLess(DateKey(Cited(i)), DateKey(Cited(j)))
        /\ LET cited == [i \in DOMAIN Writes("li") |-> Writes("li")[i].bib]
           IN  /\ Len(cited) = Len(db)
               /\ \A n \in DOMAIN db :
                      SelectSeq(cited, LAMBDA e : SameClass(e, db[n]))
                          = SelectSeq(db, LAMBDA e : SameClass(e, db[n]))

\* a finished run over an article dated by its year, a later one dated
\* "2021-03" and a shared task: the later article is cited first
HtmlOrderWitness ==
    /\ pc = "done"
    /\ Len(db) = 3
    /\ db[1].ID = <<"a", "2", "0">> /\ db[2].ID = <<"a", "2", "1">> /\ db[3].ID = <<"s", "1", "9">>
    /\ LET lis == Writes("li")
       IN  /\ lis[1].bib = db[2] /\ lis[2].bib = db[1] /\ lis[3].bib = db[3]
    /\ \E i \in Citations : SectionOf(i) = <<"s", "h", "a", "r", "e", "d", "t", "a", "s", "k">>

\* a finished run over two articles of one DateKey, cited in input order
HtmlStableWitness ==
    /\ pc = "done"
    /\ Len(db) = 2
    /\ db[1].ID = <<"b", "2", "0">> /\ db[2].ID = <<"a", "2", "0">>
    /\ LET lis == Writes("li") IN lis[1].bib = db[1] /\ lis[2].bib = db[2]

=============================================================================
